---- MODULE Spec2Model ----
(***************************************************************************)
(* RetailETLPipeline (python_pipeline/etl_pipeline.py): the four tables,   *)
(* load_data, clean_data, generate_metrics, generate_business_insights,    *)
(* export_data and run_pipeline.                                           *)
(*                                                                         *)
(* Units.  Money (total_amount, price, revenue) is held in thousandths of  *)
(* a currency unit, so that round(2) has something to round.  Ages are     *)
(* held in half-years, so that the median of an even number of whole ages  *)
(* is exact.  Dates are day numbers; a month is 30 days.                   *)
(* A missing numeric cell is NaN, a missing text cell is NaNStr; every     *)
(* comparison with NaN is false, as in pandas.                             *)
(***************************************************************************)
EXTENDS Integers, Sequences, FiniteSets, TLC

VARIABLES
    files,          \* data_dir: the four CSV files, each a table or absent
    customers_df,
    products_df,
    sales_df,
    inventory_df,
    processed_data,
    exported,       \* names of the JSON files export_data has written
    raised,         \* exception the last call ended with, or "none"
    cleans,         \* history: clean_data calls completed on the loaded tables (up to 2)
    frames          \* history: the local frames of the last generate_metrics

vars == <<files, customers_df, products_df, sales_df, inventory_df,
          processed_data, exported, raised, cleans, frames>>

----------------------------------------------------------------------------
(* Bounds of the model *)

MaxCustomers == 2
MaxProducts == 2
MaxSales == 2
MaxInventory == 2
NumTopProducts == 22
MaxRegionSales == 2
MaxChurnCustomers == 10
MaxAgeRows == 3

(* Program constants *)

AgeMin == 18
AgeMax == 100
PriceMax == 10000
DefaultQuantity == 1
DefaultReorderLevel == 10
DefaultMaxStock == 100
DefaultTurnover == 1
ChurnDays == 90
TopN == 20

----------------------------------------------------------------------------
(* Cells, columns and frames *)

NaN == 0 - 1000000
NaNStr == "NaN"
None == [none |-> TRUE]

Years(n) == 2 * n
Money(n) == 1000 * n

isna(x) == x = NaN
fillna(x, v) == IF x = NaN THEN v ELSE x
fillna_str(x, v) == IF x = NaNStr THEN v ELSE x

Min(a, b) == IF a < b THEN a ELSE b
Max(a, b) == IF a > b THEN a ELSE b

RECURSIVE SortedSeq(_)
SortedSeq(S) ==
    IF S = {} THEN <<>>
    ELSE LET m == CHOOSE x \in S : \A y \in S : x <= y
         IN  <<m>> \o SortedSeq(S \ {m})

(* the rows of a frame at the positions K, in frame order (boolean mask) *)
Keep(rows, K) ==
    LET idx == SortedSeq(K)
    IN  [k \in 1..Len(idx) |-> rows[idx[k]]]

Range(s) == {s[i] : i \in DOMAIN s}

RECURSIVE SumSeq(_)
SumSeq(s) == IF s = <<>> THEN 0 ELSE s[1] + SumSeq(Tail(s))

Column(rows, name) == [i \in DOMAIN rows |-> rows[i][name]]

drop_duplicates(rows) ==
    Keep(rows, {i \in DOMAIN rows : \A j \in 1..(i - 1) : rows[j].id # rows[i].id})

RECURSIVE sort_asc(_)
sort_asc(s) ==
    IF s = <<>> THEN <<>>
    ELSE LET r == sort_asc(SubSeq(s, 1, Len(s) - 1))
             x == s[Len(s)]
             k == Cardinality({i \in DOMAIN r : r[i] <= x})
         IN  SubSeq(r, 1, k) \o <<x>> \o SubSeq(r, k + 1, Len(r))

median(col) ==
    LET s == sort_asc(SelectSeq(col, LAMBDA x : x # NaN))
        n == Len(s)
    IN  IF n = 0 THEN NaN
        ELSE IF n % 2 = 1 THEN s[(n + 1) \div 2]
        ELSE (s[n \div 2] + s[(n \div 2) + 1]) \div 2

(* numpy.round(x, 2) of the non-negative quotient num/den of thousandths:   *)
(* to the nearest hundredth, halves to the even hundredth                  *)
round2(num, den) ==
    LET d == 10 * den
        q == num \div d
        r == num % d
    IN  IF 2 * r > d \/ (2 * r = d /\ q % 2 = 1) THEN 10 * (q + 1) ELSE 10 * q

----------------------------------------------------------------------------
(* clean_data *)

Frame(rows) == [rows |-> rows]
SalesFrame(rows, dtype, ym) == [rows |-> rows, date_dtype |-> dtype, year_month |-> ym]

Ids(df) == {df.rows[i].id : i \in DOMAIN df.rows}

(* mutant: the missing region is not filled *)
clean_customers_region_unfilled(rows) ==
    LET d == drop_duplicates(rows)
        med == median(Column(d, "age"))
        f == [i \in DOMAIN d |->
                [d[i] EXCEPT !.name = fillna_str(@, "Unknown Customer"),
                             !.age = fillna(@, med)]]
    IN  SelectSeq(f, LAMBDA r : /\ r.age # NaN
                                /\ r.age >= Years(AgeMin)
                                /\ r.age <= Years(AgeMax))

(* mutant: the age outliers are removed before the missing ages are filled *)
clean_customers_median_after_filter(rows) ==
    LET d == drop_duplicates(rows)
        k == SelectSeq(d, LAMBDA r : \/ r.age = NaN
                                     \/ (r.age >= Years(AgeMin) /\ r.age <= Years(AgeMax)))
        med == median(Column(k, "age"))
        f == [i \in DOMAIN k |->
                [k[i] EXCEPT !.name = fillna_str(@, "Unknown Customer"),
                             !.age = fillna(@, med),
                             !.region = fillna_str(@, "Unknown")]]
    IN  SelectSeq(f, LAMBDA r : r.age # NaN)

clean_customers(rows) ==
    LET d == drop_duplicates(rows)
        med == median(Column(d, "age"))
        f == [i \in DOMAIN d |->
                [d[i] EXCEPT !.name = fillna_str(@, "Unknown Customer"),
                             !.age = fillna(@, med),
                             !.region = fillna_str(@, "Unknown")]]
    IN  SelectSeq(f, LAMBDA r : /\ r.age # NaN
                                /\ r.age >= Years(AgeMin)
                                /\ r.age <= Years(AgeMax))

clean_products(rows) ==
    LET d == drop_duplicates(rows)
        f == [i \in DOMAIN d |->
                [d[i] EXCEPT !.name = fillna_str(@, "Unknown Product"),
                             !.category = fillna_str(@, "Other"),
                             !.supplier = fillna_str(@, "Unknown Supplier")]]
    IN  SelectSeq(f, LAMBDA r : /\ r.price # NaN
                                /\ r.price > 0
                                /\ r.price <= Money(PriceMax))

(* mutant: the product reference is not validated *)
clean_sales_product_unvalidated(rows, valid_customers, valid_products) ==
    LET d == drop_duplicates(rows)
        v == SelectSeq(d, LAMBDA r : r.customer_id \in valid_customers)
        f == [i \in DOMAIN v |-> [v[i] EXCEPT !.quantity = fillna(@, DefaultQuantity)]]
        q == SelectSeq(f, LAMBDA r : r.quantity > 0)
    IN  SelectSeq(q, LAMBDA r : r.total_amount # NaN /\ r.total_amount > 0)

clean_sales(rows, valid_customers, valid_products) ==
    LET d == drop_duplicates(rows)
        v == SelectSeq(d, LAMBDA r : /\ r.customer_id \in valid_customers
                                     /\ r.product_id \in valid_products)
        f == [i \in DOMAIN v |-> [v[i] EXCEPT !.quantity = fillna(@, DefaultQuantity)]]
        q == SelectSeq(f, LAMBDA r : r.quantity > 0)
    IN  SelectSeq(q, LAMBDA r : r.total_amount # NaN /\ r.total_amount > 0)

new_record(product_id, now) ==
    [id |-> product_id, product_id |-> product_id, current_stock |-> 0,
     reorder_level |-> DefaultReorderLevel, max_stock |-> DefaultMaxStock,
     turnover_rate |-> DefaultTurnover, last_updated |-> now]

(* mutant: a record is synthesized for every product, missing or not *)
clean_inventory_all_products(rows, product_ids, now, descending) ==
    LET asc == SortedSeq(product_ids)
        n == Len(asc)
        order == IF descending THEN [k \in 1..n |-> asc[n + 1 - k]] ELSE asc
        added == rows \o [k \in 1..n |-> new_record(order[k], now)]
    IN  [i \in DOMAIN added |->
            [added[i] EXCEPT !.current_stock = Max(@, 0),
                             !.turnover_rate = fillna(@, DefaultTurnover)]]

(* mutant: the stock is not clamped at 0 *)
clean_inventory_unclipped(rows, product_ids, now, descending) ==
    LET missing_inventory == product_ids \ {rows[i].product_id : i \in DOMAIN rows}
        asc == SortedSeq(missing_inventory)
        n == Len(asc)
        order == IF descending THEN [k \in 1..n |-> asc[n + 1 - k]] ELSE asc
        added == rows \o [k \in 1..n |-> new_record(order[k], now)]
    IN  [i \in DOMAIN added |-> [added[i] EXCEPT !.turnover_rate = fillna(@, DefaultTurnover)]]

(* Python iterates the set missing_inventory in hash order: for small      *)
(* integers that is ascending or not, depending on the values; both orders *)
(* are drawn (descending = TRUE for the reverse).                          *)
clean_inventory(rows, product_ids, now, descending) ==
    LET missing_inventory == product_ids \ {rows[i].product_id : i \in DOMAIN rows}
        asc == SortedSeq(missing_inventory)
        n == Len(asc)
        order == IF descending THEN [k \in 1..n |-> asc[n + 1 - k]] ELSE asc
        added == rows \o [k \in 1..n |-> new_record(order[k], now)]
    IN  [i \in DOMAIN added |->
            [added[i] EXCEPT !.current_stock = Max(@, 0),
                             !.turnover_rate = fillna(@, DefaultTurnover)]]

clean_data(self, now, descending) ==
    IF \/ self.customers_df = None \/ self.products_df = None
       \/ self.sales_df = None \/ self.inventory_df = None
    THEN [self EXCEPT !.raised = "ValueError"]
    ELSE LET customers == clean_customers(self.customers_df.rows)
             products == clean_products(self.products_df.rows)
             valid_customers == {customers[i].id : i \in DOMAIN customers}
             valid_products == {products[i].id : i \in DOMAIN products}
             sales == clean_sales(self.sales_df.rows, valid_customers, valid_products)
             inventory == clean_inventory(self.inventory_df.rows, valid_products,
                                          now, descending)
         IN  [self EXCEPT !.customers_df = Frame(customers),
                          !.products_df = Frame(products),
                          !.sales_df = SalesFrame(sales, "datetime64", @.year_month),
                          !.inventory_df = Frame(inventory),
                          !.cleans = Min(@ + 1, 2),
                          !.raised = "none"]

----------------------------------------------------------------------------
(* generate_metrics: joins and group-bys *)

(* sort order of the group keys that are text *)
RegionOrder == <<"Central", "East", "North", "South", "Unknown", "West">>
CategoryOrder == <<"Automotive", "Beauty", "Books", "Electronics", "Fashion",
                   "Home & Garden", "Other", "Sports">>
AgeGroupOrder == <<"18-25", "26-35", "36-50", "51-65", "65+">>

Rank(order, x) == CHOOSE i \in DOMAIN order : order[i] = x

(* DataFrame.merge(how='inner', suffixes=('', suffix)): one row per         *)
(* matching pair, in left order; a right column whose name the left frame  *)
(* has too gets the suffix                                                 *)
merge(left, right, left_on, right_on, suffix) ==
    LET n == Len(right)
        pairs == {(i - 1) * n + j : i \in DOMAIN left, j \in DOMAIN right}
        hit == {c \in pairs :
                   left[((c - 1) \div n) + 1][left_on] = right[((c - 1) % n) + 1][right_on]}
        idx == SortedSeq(hit)
        joined(l, r) ==
            LET renamed(c) == IF c \in DOMAIN l THEN c \o suffix ELSE c
            IN  l @@ [c \in {renamed(k) : k \in DOMAIN r} |->
                         r[CHOOSE k \in DOMAIN r : renamed(k) = c]]
    IN  [k \in 1..Len(idx) |->
            joined(left[((idx[k] - 1) \div n) + 1], right[((idx[k] - 1) % n) + 1])]

(* the keys of groupby(text column), sorted; rows with a missing key are dropped *)
group_keys(rows, by, order) ==
    LET present == {rows[i][by] : i \in DOMAIN rows} \ {NaNStr}
        ranks == SortedSeq({Rank(order, k) : k \in present})
    IN  [i \in DOMAIN ranks |-> order[ranks[i]]]

Group(rows, by, key) == SelectSeq(rows, LAMBDA r : r[by] = key)

(* sort_values(by, ascending=False).  The default sort is not stable: rows *)
(* of equal value keep their order or, with reverse_ties, swap it.         *)
sort_values_desc(rows, by, reverse_ties) ==
    LET pos == [i \in DOMAIN rows |->
                    1 + Cardinality({j \in DOMAIN rows : rows[j][by] > rows[i][by]})
                      + Cardinality({j \in DOMAIN rows :
                            /\ rows[j][by] = rows[i][by]
                            /\ IF reverse_ties THEN j > i ELSE j < i})]
    IN  [k \in DOMAIN rows |-> rows[CHOOSE i \in DOMAIN rows : pos[i] = k]]

head(rows, n) == SubSeq(rows, 1, Min(n, Len(rows)))

(* first row holding the maximum of a column: Series.idxmax *)
idxmax(rows, column) ==
    CHOOSE i \in DOMAIN rows :
        /\ \A j \in DOMAIN rows : rows[j][column] <= rows[i][column]
        /\ \A j \in 1..(i - 1) : rows[j][column] < rows[i][column]

Mean(col) == [num |-> SumSeq(col), den |-> Len(col)]

revenue_by_region_of(sales, customers) ==
    LET sales_with_customer == merge(sales, customers, "customer_id", "id", "_customer")
        keys == group_keys(sales_with_customer, "region", RegionOrder)
    IN  [k \in DOMAIN keys |->
            LET g == Group(sales_with_customer, "region", keys[k])
                total == SumSeq(Column(g, "total_amount"))
            IN  [region |-> keys[k],
                 total_revenue |-> round2(total, 1),
                 total_sales |-> Len(g),
                 avg_order_value |-> round2(total, Len(g))]]

sales_with_product_of(sales, products) ==
    merge(sales, products, "product_id", "id", "_product")

(* groupby(['product_id', 'name', 'category']): groups in product_id order *)
product_groups_of(sales_with_product) ==
    LET joined == SelectSeq(sales_with_product,
                            LAMBDA m : m.name # NaNStr /\ m.category # NaNStr)
        ids == SortedSeq({joined[i].product_id : i \in DOMAIN joined})
    IN  [k \in DOMAIN ids |->
            LET g == Group(joined, "product_id", ids[k])
            IN  [product_id |-> ids[k],
                 name |-> g[1].name,
                 category |-> g[1].category,
                 total_quantity_sold |-> SumSeq(Column(g, "quantity")),
                 total_revenue |-> round2(SumSeq(Column(g, "total_amount")), 1),
                 number_of_sales |-> Len(g)]]

(* mutant: the groups are cut to 20 without being sorted *)
top_products_unsorted(product_groups, reverse_ties) == head(product_groups, TopN)

top_products_of(product_groups, reverse_ties) ==
    head(sort_values_desc(product_groups, "total_revenue", reverse_ties), TopN)

category_performance_of(sales_with_product, reverse_ties) ==
    LET keys == group_keys(sales_with_product, "category", CategoryOrder)
        groups == [k \in DOMAIN keys |->
            LET g == Group(sales_with_product, "category", keys[k])
                total == SumSeq(Column(g, "total_amount"))
            IN  [category |-> keys[k],
                 total_revenue |-> round2(total, 1),
                 avg_order_value |-> round2(total, Len(g)),
                 total_quantity |-> SumSeq(Column(g, "quantity")),
                 number_of_sales |-> Len(g)]]
    IN  sort_values_desc(groups, "total_revenue", reverse_ties)

(* pd.cut(age, bins=[0, 25, 35, 50, 65, 100]): intervals closed on the right *)
cut(age) ==
    IF age = NaN \/ age <= 0 \/ age > Years(100) THEN NaNStr
    ELSE IF age <= Years(25) THEN "18-25"
    ELSE IF age <= Years(35) THEN "26-35"
    ELSE IF age <= Years(50) THEN "36-50"
    ELSE IF age <= Years(65) THEN "51-65"
    ELSE "65+"

(* mutant: churned from the 90th day on *)
is_churned_from_90(days_since_last_purchase) == days_since_last_purchase >= ChurnDays

is_churned(days_since_last_purchase) == days_since_last_purchase > ChurnDays

SeqMin(col) == CHOOSE x \in Range(col) : \A y \in Range(col) : x <= y
SeqMax(col) == CHOOSE x \in Range(col) : \A y \in Range(col) : x >= y

customer_metrics_of(sales, customers, now) ==
    LET ids == SortedSeq({sales[i].customer_id : i \in DOMAIN sales})
        grouped == [k \in DOMAIN ids |->
            LET g == Group(sales, "customer_id", ids[k])
                total == SumSeq(Column(g, "total_amount"))
            IN  [customer_id |-> ids[k],
                 total_spent |-> round2(total, 1),
                 avg_order_value |-> round2(total, Len(g)),
                 number_of_orders |-> Len(g),
                 first_purchase |-> SeqMin(Column(g, "date")),
                 last_purchase |-> SeqMax(Column(g, "date"))]]
        merged == merge(grouped, customers, "customer_id", "id", "")
    IN  [i \in DOMAIN merged |->
            LET m == merged[i]
                days == now - m.last_purchase
            IN  [id |-> m.id,
                 total_spent |-> m.total_spent,
                 avg_order_value |-> m.avg_order_value,
                 number_of_orders |-> m.number_of_orders,
                 first_purchase |-> m.first_purchase,
                 last_purchase |-> m.last_purchase,
                 age |-> m.age,
                 region |-> m.region,
                 days_since_last_purchase |-> days,
                 is_churned |-> is_churned(days),
                 age_group |-> cut(m.age)]]

Churned(customer_metrics) == SelectSeq(customer_metrics, LAMBDA c : c.is_churned)

age_group_analysis_of(customer_metrics) ==
    LET keys == group_keys(customer_metrics, "age_group", AgeGroupOrder)
    IN  [k \in DOMAIN keys |->
            LET g == Group(customer_metrics, "age_group", keys[k])
                total == SumSeq(Column(g, "total_spent"))
            IN  [age_group |-> keys[k],
                 avg_spent |-> round2(total, Len(g)),
                 total_spent |-> round2(total, 1),
                 avg_orders |-> round2(1000 * SumSeq(Column(g, "number_of_orders")), Len(g)),
                 churn_rate |-> round2(1000 * Len(Churned(g)), Len(g))]]

(* mutant: the join is on the inventory record's own id *)
inventory_with_product_on_id(inventory, products) ==
    merge(inventory, products, "id", "id", "_product")

inventory_with_product_of(inventory, products) ==
    merge(inventory, products, "product_id", "id", "_product")

low_stock_products_of(inventory_with_product) ==
    LET low == SelectSeq(inventory_with_product,
                         LAMBDA m : m.current_stock <= m.reorder_level)
    IN  [i \in DOMAIN low |->
            [product_id |-> low[i].product_id,
             name |-> low[i].name,
             category |-> low[i].category,
             current_stock |-> low[i].current_stock,
             reorder_level |-> low[i].reorder_level,
             turnover_rate |-> low[i].turnover_rate]]

turnover_analysis_of(inventory_with_product) ==
    LET keys == group_keys(inventory_with_product, "category", CategoryOrder)
    IN  [k \in DOMAIN keys |->
            LET g == Group(inventory_with_product, "category", keys[k])
                rates == Column(g, "turnover_rate")
            IN  [category |-> keys[k],
                 avg_turnover |-> round2(1000 * SumSeq(rates), Len(g)),
                 min_turnover |-> 1000 * SeqMin(rates),
                 max_turnover |-> 1000 * SeqMax(rates)]]

Month(day) == day \div 30

monthly_trends_of(sales) ==
    LET months == SortedSeq({Month(sales[i].date) : i \in DOMAIN sales})
    IN  [k \in DOMAIN months |->
            LET g == SelectSeq(sales, LAMBDA s : Month(s.date) = months[k])
            IN  [year_month |-> months[k],
                 revenue |-> round2(SumSeq(Column(g, "total_amount")), 1),
                 quantity_sold |-> SumSeq(Column(g, "quantity")),
                 number_of_sales |-> Len(g)]]

----------------------------------------------------------------------------
(* generate_business_insights *)

Insight(title, about, impact, category) ==
    [title |-> title, about |-> about, impact |-> impact, category |-> category]

(* churn_rate > 0.3 on the mean of a boolean column; the mean of an empty   *)
(* column is NaN and compares false                                        *)
(* mutant: a churn rate of exactly 30% counts as a concern *)
exceeds_churn_threshold_inclusive(churn_rate) ==
    churn_rate.den > 0 /\ 10 * churn_rate.num >= 3 * churn_rate.den

exceeds_churn_threshold(churn_rate) ==
    churn_rate.den > 0 /\ 10 * churn_rate.num > 3 * churn_rate.den

(* avg_revenue * 1.2 is a binary64 product. Where the exact product is    *)
(* top_region_revenue itself, the comparison is decided by the rounding of *)
(* the product: these are the averages (in thousandths) of this model's    *)
(* revenue columns whose product rounds below the exact one                *)
(* (0.375 * 1.2 = 0.44999999999999996 < 0.45); that of the others          *)
(* (75.0 * 1.2 = 90.0) is exact.                                           *)
RoundsBelow == {375}

(* top_region_revenue > avg_revenue * 1.2 *)
leads_regions(revenue_by_region, top_region) ==
    LET n == Len(revenue_by_region)
        top_region_revenue == revenue_by_region[top_region].total_revenue
        total == SumSeq(Column(revenue_by_region, "total_revenue"))
    IN  \/ 10 * n * top_region_revenue > 12 * total
        \/ /\ 10 * n * top_region_revenue = 12 * total
           /\ total % n = 0
           /\ (total \div n) \in RoundsBelow

regional_insight(revenue_by_region) ==
    LET top_region == idxmax(revenue_by_region, "total_revenue")
    IN  IF leads_regions(revenue_by_region, top_region)
        THEN <<Insight("Regional Performance Leader",
                       revenue_by_region[top_region].region,
                       "High", "Regional Analysis")>>
        ELSE <<>>

category_insight(category_performance) ==
    LET top_category == idxmax(category_performance, "total_revenue")
    IN  <<Insight("Category Dominance", category_performance[top_category].category,
                  "High", "Category Performance")>>

segment_insight(age_group_analysis) ==
    IF age_group_analysis # <<>>
    THEN LET highest_spending_group == idxmax(age_group_analysis, "avg_spent")
         IN  <<Insight("High-Value Customer Segment",
                       age_group_analysis[highest_spending_group].age_group,
                       "Medium", "Customer Segmentation")>>
    ELSE <<>>

risk_insight(low_stock_products) ==
    IF Len(low_stock_products) > 0
    THEN <<Insight("Inventory Risk Alert", "low stock", "Critical", "Inventory Management")>>
    ELSE <<>>

(* the mean of the boolean column is_churned *)
churn_rate_of(customer_metrics) ==
    [num |-> Len(Churned(customer_metrics)), den |-> Len(customer_metrics)]

retention_insight(churn_rate) ==
    IF exceeds_churn_threshold(churn_rate)
    THEN <<Insight("Customer Retention Concern", "churn", "High", "Customer Retention")>>
    ELSE <<>>

(* mutant: the insights are returned by impact, the Critical one first *)
generate_business_insights_by_impact(revenue_by_region, category_performance, age_group_analysis, customer_metrics, low_stock_products) ==
    IF revenue_by_region = <<>> \/ category_performance = <<>>
    THEN [raised |-> "ValueError", insights |-> <<>>, churn_rate |-> None]
    ELSE [raised |-> "none",
          insights |-> risk_insight(low_stock_products)
                       \o regional_insight(revenue_by_region)
                       \o category_insight(category_performance)
                       \o retention_insight(churn_rate_of(customer_metrics))
                       \o segment_insight(age_group_analysis),
          churn_rate |-> churn_rate_of(customer_metrics)]

(* idxmax of an empty column raises ValueError *)
generate_business_insights(revenue_by_region, category_performance, age_group_analysis, customer_metrics, low_stock_products) ==
    IF revenue_by_region = <<>> \/ category_performance = <<>>
    THEN [raised |-> "ValueError", insights |-> <<>>, churn_rate |-> None]
    ELSE [raised |-> "none",
          insights |-> regional_insight(revenue_by_region)
                       \o category_insight(category_performance)
                       \o segment_insight(age_group_analysis)
                       \o risk_insight(low_stock_products)
                       \o retention_insight(churn_rate_of(customer_metrics)),
          churn_rate |-> churn_rate_of(customer_metrics)]

----------------------------------------------------------------------------
(* generate_metrics *)

EmptyDict == [empty |-> TRUE]

generate_metrics(self, now, reverse_ties) ==
    IF \/ self.customers_df = None \/ self.products_df = None
       \/ self.sales_df = None \/ self.inventory_df = None
    THEN [self EXCEPT !.raised = "ValueError"]
    ELSE IF self.sales_df.date_dtype # "datetime64"
    THEN \* line 209: the .dt accessor on a date column that was never parsed
         [self EXCEPT !.raised = "AttributeError"]
    ELSE
    LET customers == self.customers_df.rows
        products == self.products_df.rows
        sales == self.sales_df.rows
        inventory == self.inventory_df.rows
        revenue_by_region == revenue_by_region_of(sales, customers)
        sales_with_product == sales_with_product_of(sales, products)
        product_groups == product_groups_of(sales_with_product)
        top_products == top_products_of(product_groups, reverse_ties)
        category_performance == category_performance_of(sales_with_product, reverse_ties)
        customer_metrics == customer_metrics_of(sales, customers, now)
        age_group_analysis == age_group_analysis_of(customer_metrics)
        inventory_with_product == inventory_with_product_of(inventory, products)
        low_stock_products == low_stock_products_of(inventory_with_product)
        turnover_analysis == turnover_analysis_of(inventory_with_product)
        monthly_trends == monthly_trends_of(sales)
        business == generate_business_insights(revenue_by_region, category_performance,
                        age_group_analysis, customer_metrics, low_stock_products)
        locals == [customer_metrics |-> customer_metrics,
                   product_groups |-> product_groups,
                   inventory_with_product |-> inventory_with_product,
                   churn_rate |-> business.churn_rate]
        with_month == [self EXCEPT !.sales_df.year_month = TRUE, !.frames = locals]
    IN  IF business.raised # "none"
        THEN [with_month EXCEPT !.raised = business.raised]
        ELSE [with_month EXCEPT
                !.raised = "none",
                !.processed_data =
                    [revenue_by_region |-> revenue_by_region,
                     top_products |-> top_products,
                     category_performance |-> category_performance,
                     customer_metrics_summary |->
                         [total_customers |-> Len(customer_metrics),
                          active_customers |->
                              Len(SelectSeq(customer_metrics, LAMBDA c : ~c.is_churned)),
                          churned_customers |-> Len(Churned(customer_metrics)),
                          churn_rate |-> churn_rate_of(customer_metrics),
                          avg_customer_value |->
                              Mean(Column(customer_metrics, "total_spent")),
                          avg_order_value |->
                              Mean(Column(customer_metrics, "avg_order_value"))],
                     age_group_analysis |-> age_group_analysis,
                     inventory_insights |->
                         [low_stock_products |-> low_stock_products,
                          total_products_at_risk |-> Len(low_stock_products),
                          turnover_by_category |-> turnover_analysis],
                     monthly_trends |-> monthly_trends,
                     business_insights |-> business.insights]]

----------------------------------------------------------------------------
(* load_data, export_data, run_pipeline *)

Absent == [exists |-> FALSE, rows |-> <<>>]
Csv(rows) == [exists |-> TRUE, rows |-> rows]

(* the files are read in this order; the first absent one raises, and the   *)
(* frames read before it stay assigned                                     *)
load_data(self, dir) ==
    IF ~dir.customers.exists THEN [self EXCEPT !.raised = "FileNotFoundError"]
    ELSE LET c == [self EXCEPT !.customers_df = Frame(dir.customers.rows), !.cleans = 0]
    IN  IF ~dir.products.exists THEN [c EXCEPT !.raised = "FileNotFoundError"]
    ELSE LET p == [c EXCEPT !.products_df = Frame(dir.products.rows)]
    IN  IF ~dir.sales.exists THEN [p EXCEPT !.raised = "FileNotFoundError"]
    ELSE LET s == [p EXCEPT !.sales_df = SalesFrame(dir.sales.rows, "object", FALSE)]
    IN  IF ~dir.inventory.exists THEN [s EXCEPT !.raised = "FileNotFoundError"]
    ELSE [s EXCEPT !.inventory_df = Frame(dir.inventory.rows), !.raised = "none"]

Endpoints == {"revenue_by_region", "top_products", "category_performance",
              "customer_summary", "age_groups", "inventory_risks",
              "monthly_trends", "business_insights"}

(* metrics.json is written first; an empty processed_data then has no key   *)
export_data(self) ==
    IF self.processed_data = EmptyDict
    THEN [self EXCEPT !.exported = @ \cup {"metrics"}, !.raised = "KeyError"]
    ELSE [self EXCEPT !.exported = @ \cup {"metrics"} \cup Endpoints, !.raised = "none"]

(* mutant: the load error is reported and not raised again *)
run_pipeline_ignoring_load_error(self, dir, now, descending, reverse_ties) ==
    LET loaded == [load_data(self, dir) EXCEPT !.raised = "none"]
        clean == clean_data(loaded, now, descending)
    IN  IF clean.raised # "none" THEN clean
        ELSE LET metrics == generate_metrics(clean, now, reverse_ties)
        IN  IF metrics.raised # "none" THEN metrics
        ELSE export_data(metrics)

run_pipeline(self, dir, now, descending, reverse_ties) ==
    LET loaded == load_data(self, dir)
    IN  IF loaded.raised # "none" THEN loaded
        ELSE LET clean == clean_data(loaded, now, descending)
        IN  IF clean.raised # "none" THEN clean
        ELSE LET metrics == generate_metrics(clean, now, reverse_ties)
        IN  IF metrics.raised # "none" THEN metrics
        ELSE export_data(metrics)

----------------------------------------------------------------------------
(* The pipeline object and its client *)

Self ==
    [customers_df |-> customers_df, products_df |-> products_df,
     sales_df |-> sales_df, inventory_df |-> inventory_df,
     processed_data |-> processed_data, exported |-> exported,
     raised |-> raised, cleans |-> cleans, frames |-> frames]

Becomes(self) ==
    \E s \in {self} :
        /\ customers_df' = s.customers_df
        /\ products_df' = s.products_df
        /\ sales_df' = s.sales_df
        /\ inventory_df' = s.inventory_df
        /\ processed_data' = s.processed_data
        /\ exported' = s.exported
        /\ raised' = s.raised
        /\ cleans' = s.cleans
        /\ frames' = s.frames
        /\ UNCHANGED files

RunDays == {1000}

LoadData == Becomes(load_data(Self, files))

CleanData ==
    \E now \in RunDays, descending \in BOOLEAN :
        Becomes(clean_data(Self, now, descending))

GenerateMetrics ==
    \E now \in RunDays, reverse_ties \in BOOLEAN :
        Becomes(generate_metrics(Self, now, reverse_ties))

ExportData == Becomes(export_data(Self))

RunPipeline ==
    \E now \in RunDays, descending \in BOOLEAN, reverse_ties \in BOOLEAN :
        Becomes(run_pipeline(Self, files, now, descending, reverse_ties))

Next == LoadData \/ CleanData \/ GenerateMetrics \/ ExportData \/ RunPipeline

Constructed ==
    /\ customers_df = None
    /\ products_df = None
    /\ sales_df = None
    /\ inventory_df = None
    /\ processed_data = EmptyDict
    /\ exported = {}
    /\ raised = "none"
    /\ cleans = 0
    /\ frames = None

----------------------------------------------------------------------------
(* The CSV files a run may find in data_dir *)

customer(id, name, age, region) ==
    [id |-> id, name |-> name, age |-> age, region |-> region]
product(id, name, category, price, supplier) ==
    [id |-> id, name |-> name, category |-> category, price |-> price,
     supplier |-> supplier]
sale(id, customer_id, product_id, date, quantity, total_amount) ==
    [id |-> id, customer_id |-> customer_id, product_id |-> product_id,
     date |-> date, quantity |-> quantity, total_amount |-> total_amount]
stock(id, product_id, current_stock, reorder_level, max_stock, turnover_rate) ==
    [id |-> id, product_id |-> product_id, current_stock |-> current_stock,
     reorder_level |-> reorder_level, max_stock |-> max_stock,
     turnover_rate |-> turnover_rate, last_updated |-> 990]

CustomerPool ==
    << customer(1, "Ann", Years(30), "North"),
       customer(2, "Bob", NaN, NaNStr),
       customer(3, "Eve", Years(45), "South"),
       customer(2, "Bob", Years(101), "South"),
       customer(1, NaNStr, Years(17), "South") >>

ProductPool ==
    << product(10, "Pen", "Books", Money(20), "BookLand"),
       product(11, NaNStr, NaNStr, Money(30), NaNStr),
       product(11, "Cam", "Electronics", Money(10001), "TechCorp"),
       product(10, "Pen", "Books", Money(20), "BookLand"),
       product(10, "Pen", "Books", 0 - Money(5), "BookLand") >>

SalePool ==
    << sale(100, 1, 10, 905, 2, Money(40)),
       sale(101, 2, 11, 910, NaN, 25005),
       sale(102, 3, 10, 909, 1, Money(90)),
       sale(102, 4, 11, 990, 1, Money(20)),
       sale(103, 3, 12, 990, 1, Money(20)),
       sale(104, 2, 10, 905, 0, Money(20)),
       sale(105, 1, 11, 990, 1, 0) >>

InventoryPool ==
    << stock(1, 10, 50, 10, 100, 5),
       stock(2, 11, 0 - 3, 10, 100, NaN),
       stock(10, 12, 5, 10, 100, 2),
       stock(4, 10, 10, 10, 100, 2) >>

(* the tables cut from a pool: up to n consecutive rows, the pool taken     *)
(* as a ring                                                               *)
Windows(pool, n) ==
    {[k \in 1..len |-> pool[((start + k - 2) % Len(pool)) + 1]] :
        start \in DOMAIN pool, len \in 0..Min(n, Len(pool))}

Dir(c, p, s, i) ==
    [customers |-> Csv(c), products |-> Csv(p), sales |-> Csv(s), inventory |-> Csv(i)]

(* a data_dir in which one of the four files is missing *)
MissingDirs ==
    LET d == Dir(SubSeq(CustomerPool, 1, 1), SubSeq(ProductPool, 1, 1),
                 SubSeq(SalePool, 1, 1), SubSeq(InventoryPool, 1, 1))
    IN  {[d EXCEPT ![t] = Absent] : t \in {"customers", "products", "sales", "inventory"}}

Dirs ==
    {Dir(c, p, s, i) :
        c \in Windows(CustomerPool, MaxCustomers),
        p \in Windows(ProductPool, MaxProducts),
        s \in Windows(SalePool, MaxSales),
        i \in {SubSeq(InventoryPool, 2, 3)}}
    \cup MissingDirs

InventoryDirs ==
    {Dir(c, p, s, i) :
        c \in {SubSeq(CustomerPool, 1, 2)},
        p \in Windows(ProductPool, MaxProducts),
        s \in {<<>>, SubSeq(SalePool, 1, 2)},
        i \in Windows(InventoryPool, MaxInventory)}
    \cup MissingDirs

(* a catalogue of n products, each sold once to the one customer for      *)
(* 1 + (a*k mod m), and the first product sold a second time               *)
Catalogue(n, a, m) ==
    Dir(SubSeq(CustomerPool, 1, 1),
        [k \in 1..n |-> product(k, "Item", "Books", Money(20), "BookLand")],
        [k \in 1..n |-> sale(k, 1, k, 990, 1, Money(1 + ((a * k) % m)))]
            \o (IF n > 0 THEN <<sale(n + 1, 1, 1, 990, 2, Money(1))>> ELSE <<>>),
        <<>>)

TopDirs ==
    {Catalogue(n, a, m) :
        n \in TopN..NumTopProducts, a \in 0..2, m \in {2, 5, 23}}
    \cup MissingDirs

(* sales of one product to customers of three regions, of amounts whose   *)
(* regional sums are equal, or 1.2 times their mean, or further apart      *)
RegionCustomers ==
    << customer(1, "Ann", Years(30), "North"),
       customer(3, "Eve", Years(45), "South"),
       customer(5, "Dan", Years(60), "East") >>

RegionAmounts == {300, 450, Money(60), Money(90)}

RegionSales ==
    UNION {[1..len -> {1, 3, 5} \X RegionAmounts] : len \in 0..MaxRegionSales}

RegionDirs ==
    {Dir(RegionCustomers, SubSeq(ProductPool, 1, 1),
         [k \in DOMAIN s |-> sale(k, s[k][1], 10, 990, 1, s[k][2])],
         SubSeq(InventoryPool, 1, 1)) : s \in RegionSales}
    \cup MissingDirs

(* n customers with one sale each; the first k bought last 91 days before  *)
(* the run day, the others 90 days before it                               *)
Cohort(n, k, now) ==
    Dir([c \in 1..n |-> customer(c, "Ann", Years(30), "North")],
        SubSeq(ProductPool, 1, 1),
        [c \in 1..n |-> sale(c, c, 10, IF c <= k THEN now - (ChurnDays + 1)
                                                 ELSE now - ChurnDays, 1, Money(20))],
        SubSeq(InventoryPool, 1, 1))

ChurnDirs ==
    {Cohort(n, k, now) : n \in 1..MaxChurnCustomers, k \in 0..MaxChurnCustomers, now \in RunDays}
    \cup MissingDirs

(* customers of present, missing, too low and too high age, one of them    *)
(* listed twice                                                            *)
AgePool ==
    << customer(1, "Ann", Years(30), "North"),
       customer(2, "Bob", NaN, "South"),
       customer(3, "Eve", Years(45), "South"),
       customer(2, "Bob", Years(17), "South"),
       customer(4, "Old", Years(101), "North"),
       customer(5, "Kid", Years(17), "East"),
       customer(6, "Zed", NaN, "West") >>

AgeDirs ==
    {Dir(c, SubSeq(ProductPool, 1, 1), s, SubSeq(InventoryPool, 1, 1)) :
        c \in Windows(AgePool, MaxAgeRows),
        s \in {<<>>, SubSeq(SalePool, 1, 2)}}
    \cup MissingDirs

(* a data_dir of which any of the four files, or none, is missing *)
Tables == {"customers", "products", "sales", "inventory"}

Without(dir, missing) == [t \in Tables |-> IF t \in missing THEN Absent ELSE dir[t]]

AbsentDirs ==
    {Without(d, missing) :
        d \in {Dir(<<>>, <<>>, <<>>, <<>>),
               Dir(SubSeq(CustomerPool, 1, 2), SubSeq(ProductPool, 1, 2),
                   SubSeq(SalePool, 1, 2), SubSeq(InventoryPool, 1, 2))},
        missing \in SUBSET Tables}

Init == Constructed /\ files \in Dirs
InitInventory == Constructed /\ files \in InventoryDirs
InitTop == Constructed /\ files \in TopDirs
InitRegions == Constructed /\ files \in RegionDirs
InitChurn == Constructed /\ files \in ChurnDirs
InitAges == Constructed /\ files \in AgeDirs
InitAbsent == Constructed /\ files \in AbsentDirs

Spec == Init /\ [][Next]_vars
SpecInventory == InitInventory /\ [][Next]_vars
SpecTop == InitTop /\ [][Next]_vars
SpecRegions == InitRegions /\ [][Next]_vars
SpecChurn == InitChurn /\ [][Next]_vars
SpecAges == InitAges /\ [][Next]_vars
SpecAbsent == InitAbsent /\ [][Next]_vars

----------------------------------------------------------------------------
(* Properties *)

cleaned == cleans > 0
HasMetrics == processed_data # EmptyDict

RawIds(table) == {table.rows[i].id : i \in DOMAIN table.rows}

(* C1: after clean_data every cleaned sale references a cleaned customer   *)
(* and a cleaned product; a sale referencing a removed one is dropped.     *)
C1_ReferentialClosure ==
    cleaned =>
        \A i \in DOMAIN sales_df.rows :
            /\ sales_df.rows[i].customer_id \in Ids(customers_df)
            /\ sales_df.rows[i].product_id \in Ids(products_df)

(* a sale survived, and another that referenced a customer removed by      *)
(* cleaning (or a product removed by cleaning) is gone                     *)
C1_Witness ==
    /\ cleaned
    /\ Len(sales_df.rows) > 0
    /\ \E i \in DOMAIN files.sales.rows :
          /\ files.sales.rows[i].customer_id \in RawIds(files.customers) \ Ids(customers_df)
          /\ files.sales.rows[i].id \notin Ids(sales_df)
    /\ \E i \in DOMAIN files.sales.rows :
          /\ files.sales.rows[i].product_id \in RawIds(files.products) \ Ids(products_df)
          /\ files.sales.rows[i].id \notin Ids(sales_df)

(* C2: generate_metrics invoked before clean_data has run fails with the   *)
(* precondition error (the ValueError of its guard) and leaves             *)
(* processed_data unchanged.                                               *)
C2_PreconditionBeforeClean ==
    [][(GenerateMetrics /\ ~cleaned) =>
          (raised' = "ValueError" /\ processed_data' = processed_data)]_vars

(* C3: on cleaned tables, also when no sale survived, insight derivation   *)
(* completes without error and yields exactly one Category Dominance       *)
(* insight, of impact High.                                                *)
C3_InsightsNeverFail ==
    [][(GenerateMetrics /\ cleaned) =>
          /\ raised' = "none"
          /\ Cardinality({i \in DOMAIN processed_data'.business_insights :
                 /\ processed_data'.business_insights[i].title = "Category Dominance"
                 /\ processed_data'.business_insights[i].impact = "High"}) = 1]_vars

(* C4: clean_data on tables that clean_data produced changes none of the   *)
(* four tables.                                                            *)
C4_CleanIdempotent ==
    [][(CleanData /\ cleaned) =>
          /\ customers_df' = customers_df
          /\ products_df' = products_df
          /\ sales_df' = sales_df
          /\ inventory_df' = inventory_df]_vars

(* clean_data has run twice on tables whose first cleaning dropped rows    *)
(* from every table it filters and synthesized an inventory record         *)
C4_Witness ==
    /\ cleans = 2
    /\ Len(customers_df.rows) < Len(files.customers.rows)
    /\ Len(products_df.rows) < Len(files.products.rows)
    /\ Len(sales_df.rows) < Len(files.sales.rows)
    /\ Len(sales_df.rows) > 0
    /\ Len(inventory_df.rows) > Len(files.inventory.rows)

Abs(x) == IF x < 0 THEN 0 - x ELSE x

(* C5: the per-region revenues add up to the total_amount of the cleaned   *)
(* sales, up to the rounding of each region's sum to 2 decimals (half a    *)
(* hundredth per region).                                                  *)
C5_RegionRevenueSum ==
    (cleaned /\ HasMetrics) =>
        LET regions == processed_data.revenue_by_region
            by_region == SumSeq(Column(regions, "total_revenue"))
            all_sales == SumSeq(Column(sales_df.rows, "total_amount"))
        IN  /\ Abs(by_region - all_sales) <= 5 * Len(regions)
            /\ SumSeq(Column(regions, "total_sales")) = Len(sales_df.rows)

(* two regions with a sale each, one of them of a customer whose region   *)
(* was missing, and a sum that rounding changed                            *)
C5_Witness ==
    /\ cleaned /\ HasMetrics
    /\ Len(processed_data.revenue_by_region) = 2
    /\ Len(sales_df.rows) = 2
    /\ SumSeq(Column(processed_data.revenue_by_region, "total_revenue"))
           # SumSeq(Column(sales_df.rows, "total_amount"))
    /\ \E i \in DOMAIN processed_data.revenue_by_region :
          processed_data.revenue_by_region[i].region = "Unknown"

(* C6: top_products has at most 20 entries, in non-increasing order of     *)
(* total_revenue, no product id twice, and no product left out has more    *)
(* revenue than one kept.                                                  *)
C6_TopProducts ==
    HasMetrics =>
        LET top == processed_data.top_products
            kept == {top[i].product_id : i \in DOMAIN top}
            all == frames.product_groups
        IN  /\ Len(top) <= TopN
            /\ \A i \in DOMAIN top : \A j \in DOMAIN top :
                  i < j => /\ top[i].total_revenue >= top[j].total_revenue
                           /\ top[i].product_id # top[j].product_id
            /\ \A g \in DOMAIN all :
                  all[g].product_id \notin kept =>
                      \A i \in DOMAIN top : all[g].total_revenue <= top[i].total_revenue
            /\ kept \subseteq {all[g].product_id : g \in DOMAIN all}

(* more than 20 products sold, of differing revenue, and one left out      *)
C6_Witness ==
    /\ HasMetrics
    /\ Len(frames.product_groups) > TopN
    /\ Len(processed_data.top_products) = TopN
    /\ processed_data.top_products[1].total_revenue
           > processed_data.top_products[TopN].total_revenue
    /\ \E g \in DOMAIN frames.product_groups :
          frames.product_groups[g].total_revenue
              < processed_data.top_products[TopN].total_revenue

(* C7 as stated: after clean_data every inventory row references a cleaned *)
(* product.                                                                *)
C7_InventoryReferencesProducts ==
    cleaned =>
        \A i \in DOMAIN inventory_df.rows :
            inventory_df.rows[i].product_id \in Ids(products_df)

(* C7 as amended: clean_data keeps every raw inventory record, in place,   *)
(* whether or not its product survived; only the inner join of             *)
(* generate_metrics leaves records without a cleaned product out, so every *)
(* row of inventory_with_product and every low-stock entry references a    *)
(* cleaned product.                                                        *)
C7_InventoryJoinReferencesProducts ==
    /\ cleaned =>
          /\ Len(inventory_df.rows) >= Len(files.inventory.rows)
          /\ \A i \in DOMAIN files.inventory.rows :
                /\ inventory_df.rows[i].id = files.inventory.rows[i].id
                /\ inventory_df.rows[i].product_id = files.inventory.rows[i].product_id
    /\ (cleaned /\ frames # None) =>
          \A i \in DOMAIN frames.inventory_with_product :
              frames.inventory_with_product[i].product_id \in Ids(products_df)
    /\ (cleaned /\ HasMetrics) =>
          \A i \in DOMAIN processed_data.inventory_insights.low_stock_products :
              processed_data.inventory_insights.low_stock_products[i].product_id
                  \in Ids(products_df)

(* the cleaned inventory holds a record of a product that cleaning removed *)
(* and one of a product no file names; metrics were computed and list a    *)
(* low-stock product                                                       *)
C7_Witness ==
    /\ cleaned /\ HasMetrics
    /\ \E i \in DOMAIN inventory_df.rows :
          inventory_df.rows[i].product_id \in RawIds(files.products) \ Ids(products_df)
    /\ \E i \in DOMAIN inventory_df.rows :
          inventory_df.rows[i].product_id \notin RawIds(files.products)
    /\ Len(frames.inventory_with_product) > 0
    /\ Len(processed_data.inventory_insights.low_stock_products) > 0

InventoryOf(rows, product_id) == SelectSeq(rows, LAMBDA r : r.product_id = product_id)

C9_ChurnRate ==
    HasMetrics =>
        LET cm == frames.customer_metrics
            summary == processed_data.customer_metrics_summary
        IN  /\ summary.total_customers = Len(cm)
            /\ summary.churn_rate.den = Len(cm)
            /\ summary.churn_rate.num =
                  Cardinality({i \in DOMAIN cm : cm[i].days_since_last_purchase > 90})
            /\ summary.churned_customers = summary.churn_rate.num
            /\ frames.churn_rate = summary.churn_rate

(* two customers, one last seen exactly 90 days ago (not churned) and one  *)
(* longer ago (churned)                                                    *)
C9_Witness ==
    /\ HasMetrics
    /\ Len(frames.customer_metrics) = 2
    /\ \E i \in DOMAIN frames.customer_metrics :
          frames.customer_metrics[i].days_since_last_purchase = 90
    /\ processed_data.customer_metrics_summary.churn_rate = [num |-> 1, den |-> 2]

RuleOrder == <<"Regional Performance Leader", "Category Dominance",
               "High-Value Customer Segment", "Inventory Risk Alert",
               "Customer Retention Concern">>

Titles(insights) == [i \in DOMAIN insights |-> insights[i].title]

(* C10: the insight titles are a subsequence of the fixed rule order, each *)
(* at most once (so never sorted by impact), and deriving again from the   *)
(* same cleaned tables gives the same titles.                              *)
C10_InsightOrder ==
    /\ [](HasMetrics =>
            LET t == Titles(processed_data.business_insights)
            IN  /\ \A i \in DOMAIN t : t[i] \in Range(RuleOrder)
                /\ \A i \in DOMAIN t : \A j \in DOMAIN t :
                      i < j => Rank(RuleOrder, t[i]) < Rank(RuleOrder, t[j]))
    /\ [][(GenerateMetrics /\ HasMetrics /\ cleaned /\ raised' = "none") =>
            Titles(processed_data'.business_insights)
                = Titles(processed_data.business_insights)]_vars

(* all five insights at once: the Critical one stands fourth, behind two   *)
(* High and one Medium                                                     *)
C10_Witness ==
    /\ HasMetrics
    /\ Titles(processed_data.business_insights) = RuleOrder
    /\ processed_data.business_insights[4].impact = "Critical"
    /\ processed_data.business_insights[3].impact = "Medium"

MaxRevenue(regions) == SeqMax(Column(regions, "total_revenue"))

(* C11: the Regional Performance Leader insight is emitted if and only if  *)
(* the highest region total_revenue is strictly greater than 1.2 times     *)
(* the mean of the region total_revenue values.                            *)
C11_RegionalLeaderIff ==
    HasMetrics =>
        LET regions == processed_data.revenue_by_region
        IN  ("Regional Performance Leader" \in Range(Titles(processed_data.business_insights)))
                <=> (10 * Len(regions) * MaxRevenue(regions)
                        > 12 * SumSeq(Column(regions, "total_revenue")))

NumChurned(customer_metrics) ==
    Cardinality({i \in DOMAIN customer_metrics :
                    customer_metrics[i].days_since_last_purchase > 90})

(* C12: the Customer Retention Concern insight is emitted if and only if   *)
(* more than 30% of the customers of customer_metrics are churned; with    *)
(* exactly 30% (3 of 10) it is not emitted.                                *)
C12_RetentionIff ==
    HasMetrics =>
        LET cm == frames.customer_metrics
        IN  ("Customer Retention Concern" \in Range(Titles(processed_data.business_insights)))
                <=> (10 * NumChurned(cm) > 3 * Len(cm))

(* 3 of 10 customers are churned and no retention insight was derived      *)
C12_Witness ==
    /\ HasMetrics
    /\ Len(frames.customer_metrics) = 10
    /\ NumChurned(frames.customer_metrics) = 3
    /\ "Customer Retention Concern"
           \notin Range(Titles(processed_data.business_insights))

(* the raw customer rows that are the first of their id *)
FirstOfId(raw) == {i \in DOMAIN raw : \A j \in 1..(i - 1) : raw[j].id # raw[i].id}

(* the median of the ages present in the rows K of raw, doubled where the   *)
(* number of ages is even (the sum of the two middle ones); NaN when none  *)
(* is present                                                              *)
TwiceMedianAge(raw, K) ==
    LET P == {i \in K : raw[i].age # NaN}
        n == Cardinality(P)
        AtMost(x) == Cardinality({i \in P : raw[i].age <= x})
        AtLeast(x) == Cardinality({i \in P : raw[i].age >= x})
        Middle(lo, hi) == CHOOSE x \in {raw[i].age : i \in P} :
                              AtMost(x) >= lo /\ AtLeast(x) >= hi
    IN  IF n = 0 THEN NaN
        ELSE IF n % 2 = 1 THEN 2 * Middle((n + 1) \div 2, (n + 1) \div 2)
        ELSE Middle(n \div 2, (n \div 2) + 1) + Middle((n \div 2) + 1, n \div 2)

(* twice the age a raw row has after the fill *)
TwiceFilledAge(raw, i) ==
    IF raw[i].age # NaN THEN 2 * raw[i].age ELSE TwiceMedianAge(raw, FirstOfId(raw))

InAgeRange(twice_age) ==
    twice_age # NaN /\ twice_age >= 2 * Years(18) /\ twice_age <= 2 * Years(100)

(* C13: after clean_data every cleaned customer has 18 <= age <= 100; a     *)
(* missing age is filled with the median of the ages present after         *)
(* deduplication and before outlier removal; the cleaned customers are     *)
(* exactly the deduplicated ones whose original or filled age lies in      *)
(* [18, 100], one with no age to fill from being dropped.                  *)
C13_AgeFillAndRange ==
    cleaned =>
        LET raw == files.customers.rows
            rows == customers_df.rows
            kept == {i \in FirstOfId(raw) : InAgeRange(TwiceFilledAge(raw, i))}
        IN  /\ \A k \in DOMAIN rows :
                  rows[k].age >= Years(18) /\ rows[k].age <= Years(100)
            /\ Len(rows) = Cardinality(kept)
            /\ \A i \in kept : \E k \in DOMAIN rows :
                  /\ rows[k].id = raw[i].id
                  /\ 2 * rows[k].age = TwiceFilledAge(raw, i)

(* a customer of missing age was kept with the median of a too high and a  *)
(* too low age, both of which were dropped: the outliers counted in the    *)
(* median                                                                  *)
C13_Witness ==
    /\ cleaned
    /\ Len(customers_df.rows) = 1
    /\ \E i \in DOMAIN files.customers.rows :
          /\ files.customers.rows[i].age = NaN
          /\ files.customers.rows[i].id = customers_df.rows[1].id
    /\ \E i \in DOMAIN files.customers.rows : files.customers.rows[i].age > Years(100)
    /\ \E i \in DOMAIN files.customers.rows :
          files.customers.rows[i].age # NaN /\ files.customers.rows[i].age < Years(18)

MissingTables == {t \in DOMAIN files : ~files[t].exists}

(* C14: when one of the four files is missing, run_pipeline ends with the  *)
(* loader's error, runs no later stage (no cleaning, no metrics, no        *)
(* export) and processed_data stays empty, whichever file it is.           *)
C14_AbsentTableStopsPipeline ==
    [][(RunPipeline /\ MissingTables # {}) =>
          /\ raised' = "FileNotFoundError"
          /\ cleans' = 0
          /\ frames' = frames
          /\ exported' = exported
          /\ processed_data = EmptyDict
          /\ processed_data' = EmptyDict
          /\ \A t \in MissingTables :
                (t = "customers" => customers_df' = customers_df)
                /\ (t = "products" => products_df' = products_df)
                /\ (t = "sales" => sales_df' = sales_df)
                /\ (t = "inventory" => inventory_df' = inventory_df)]_vars

(* only inventory.csv is missing: the three tables read before it are      *)
(* loaded, raw, and the pipeline stopped with the loader's error           *)
C14_Witness ==
    /\ MissingTables = {"inventory"}
    /\ raised = "FileNotFoundError"
    /\ customers_df = Frame(files.customers.rows)
    /\ Len(files.customers.rows) > 0
    /\ sales_df # None /\ sales_df.date_dtype = "object"
    /\ inventory_df = None
    /\ processed_data = EmptyDict
    /\ exported = {}

====
